---------------------------- MODULE Spec2Model ----------------------------
(***************************************************************************)
(* A model of mkrole (src/main.rs): a Discord bot that lets a member set   *)
(* the characters they play with the slash commands "main" and             *)
(* "secondary".  Text is modelled as a sequence of characters (one-char    *)
(* strings), so that split, trim, capitalisation and the substring tests   *)
(* of the alias table are computed as the code computes them.              *)
(***************************************************************************)
EXTENDS Integers, Sequences, FiniteSets, TLC

(***************************************************************************)
(* Characters and strings                                                  *)
(***************************************************************************)
Lower == <<"a","b","c","d","e","f","g","h","i","j","k","l","m",
           "n","o","p","q","r","s","t","u","v","w","x","y","z">>
Upper == <<"A","B","C","D","E","F","G","H","I","J","K","L","M",
           "N","O","P","Q","R","S","T","U","V","W","X","Y","Z">>

Range(s) == { s[i] : i \in DOMAIN s }

\* The two non-ASCII letters of the alphabet: U+00E9 and U+00C9, two bytes
\* each in UTF-8.
NonAsciiLower == "é"
NonAsciiUpper == "É"

\* char::make_ascii_uppercase: only the ASCII letters a-z change.
make_ascii_uppercase(c) ==
    IF c \in Range(Lower) THEN Upper[CHOOSE i \in DOMAIN Lower : Lower[i] = c]
    ELSE c

\* char::make_ascii_lowercase: only the ASCII letters A-Z change.
make_ascii_lowercase(c) ==
    IF c \in Range(Upper) THEN Lower[CHOOSE i \in DOMAIN Upper : Upper[i] = c]
    ELSE c

\* str::len counts bytes of the UTF-8 encoding, not characters.
Utf8Len(c) == IF c \in {NonAsciiLower, NonAsciiUpper} THEN 2 ELSE 1

RECURSIVE len(_)
len(s) == IF s = <<>> THEN 0 ELSE Utf8Len(Head(s)) + len(Tail(s))

\* char::is_whitespace, as str::trim uses it (space and tab in this alphabet).
IsWhitespace(c) == c \in {" ", "\t"}

RECURSIVE TrimStart(_)
TrimStart(s) ==
    IF s # <<>> /\ IsWhitespace(Head(s)) THEN TrimStart(Tail(s)) ELSE s

RECURSIVE TrimEnd(_)
TrimEnd(s) ==
    IF s # <<>> /\ IsWhitespace(s[Len(s)])
    THEN TrimEnd(SubSeq(s, 1, Len(s) - 1)) ELSE s

\* str::trim
trim(s) == TrimEnd(TrimStart(s))

\* str::split(','): the pieces between the commas; n commas give n+1 pieces.
RECURSIVE SplitFrom(_, _)
SplitFrom(s, cur) ==
    IF s = <<>> THEN <<cur>>
    ELSE IF Head(s) = "," THEN <<cur>> \o SplitFrom(Tail(s), <<>>)
    ELSE SplitFrom(Tail(s), Append(cur, Head(s)))

split(s) == SplitFrom(s, <<>>)

\* str::contains
contains(s, pat) ==
    \E i \in 0 .. (Len(s) - Len(pat)) : SubSeq(s, i + 1, i + Len(pat)) = pat

\* str::ends_with
ends_with(s, suf) ==
    /\ Len(suf) <= Len(s)
    /\ SubSeq(s, Len(s) - Len(suf) + 1, Len(s)) = suf

(***************************************************************************)
(* Characters::parse and the alias table                                   *)
(***************************************************************************)
GameAndWatch == <<"G","a","m","e"," ","&"," ","W","a","t","c","h">>
RosalinaAndLuma ==
    <<"R","o","s","a","l","i","n","a"," ","&"," ","L","u","m","a">>
Aegis == <<"A","e","g","i","s">>
DonkeyKong == <<"D","o","n","k","e","y"," ","K","o","n","g">>

None == <<"None">>
Some(x) == <<"Some", x>>

\* identify_character with the test for "Aegis" moved before the test for
\* "Rosalina".
identify_character_aegis_first(char) ==
    IF contains(char, <<"G","a","m","e">>)
       \/ contains(char, <<"W","a","t","c","h">>)
    THEN Some(GameAndWatch)
    ELSE IF contains(char, <<"B","a","n","j","o">>)
            \/ contains(char, <<"K","a","z","o","o","i","e">>)
    THEN Some(GameAndWatch)
    ELSE IF (contains(char, <<"P","y","r","a">>)
             /\ contains(char, <<"M","y","t","h","r","a">>))
            \/ contains(char, Aegis)
    THEN Some(Aegis)
    ELSE IF contains(char, <<"R","o","s","a","l","i","n","a">>)
    THEN Some(RosalinaAndLuma)
    ELSE IF char \in {<<"G","&","w">>, <<"G"," ","&"," ","W">>}
    THEN Some(GameAndWatch)
    ELSE IF char = <<"D","k">>
    THEN Some(DonkeyKong)
    ELSE None

identify_character(char) ==
    IF contains(char, <<"G","a","m","e">>)
       \/ contains(char, <<"W","a","t","c","h">>)
    THEN Some(GameAndWatch)
    ELSE IF contains(char, <<"B","a","n","j","o">>)
            \/ contains(char, <<"K","a","z","o","o","i","e">>)
    THEN Some(GameAndWatch)
    ELSE IF contains(char, <<"R","o","s","a","l","i","n","a">>)
    THEN Some(RosalinaAndLuma)
    ELSE IF (contains(char, <<"P","y","r","a">>)
             /\ contains(char, <<"M","y","t","h","r","a">>))
            \/ contains(char, Aegis)
    THEN Some(Aegis)
    ELSE IF char \in {<<"G","&","w">>, <<"G"," ","&"," ","W">>}
    THEN Some(GameAndWatch)
    ELSE IF char = <<"D","k">>
    THEN Some(DonkeyKong)
    ELSE None

find_alias(char) ==
    IF identify_character(char) = None THEN char
    ELSE identify_character(char)[2]

\* The closure of capitalize_words: previous is the character written last.
RECURSIVE CapitalizeFrom(_, _)
CapitalizeFrom(s, previous) ==
    IF s = <<>> THEN <<>>
    ELSE LET c == IF previous = " " THEN make_ascii_uppercase(Head(s))
                  ELSE make_ascii_lowercase(Head(s))
         IN  <<c>> \o CapitalizeFrom(Tail(s), c)

capitalize_words(s) == CapitalizeFrom(s, " ")


KeepPiece(p) == len(p) > 1

\* The pieces that reach capitalize_words: split, trimmed, filtered.
Pieces(text) ==
    LET parts == split(text)
    IN  SelectSeq([n \in DOMAIN parts |-> trim(parts[n])], KeepPiece)

\* The pieces after capitalize_words, before the alias table.
Normalized(text) ==
    LET pieces == Pieces(text)
    IN  [n \in DOMAIN pieces |-> capitalize_words(pieces[n])]

parse(text) ==
    LET names == Normalized(text)
    IN  [n \in DOMAIN names |-> find_alias(names[n])]

(***************************************************************************)
(* Inputs of the parser and of the alias table                             *)
(***************************************************************************)
MaxPieces == 3

\* Raw pieces a member may type between two commas.
Words ==
    { <<"m","a","r","i","o">>,
      <<"M","A","R","I","O">>,
      <<" ","L","u","i","g","i">>,
      <<"m","a","r","i","o"," ","l","u","i","g","i">>,
      <<" ","P","y","r","a"," ","M","y","t","h","r","a">>,
      <<"a","e","g","i","s"," ">>,
      <<"d","k">>,
      <<"x">>,
      <<>>,
      <<" ","\t">>,
      <<"é">>,
      <<"a","É","\t","B">> }

RECURSIVE Join(_)
Join(ws) ==
    IF ws = <<>> THEN <<>>
    ELSE IF Len(ws) = 1 THEN ws[1]
    ELSE ws[1] \o <<",">> \o Join(Tail(ws))

ExampleEndToEnd ==
    <<"r","o","s","a","l","i","n","a",","," "," ","P","y","r","a"," ",
      "M","y","t","h","r","a",","," ","d","k">>
ExampleOrder ==
    <<"M","a","r","i","o",","," ","L","u","i","g","i",","," ",
      "m","a","r","i","o">>

Texts ==
    { Join(ws) : ws \in UNION { [1..n -> Words] : n \in 0..MaxPieces } }
        \cup {ExampleEndToEnd, ExampleOrder}

\* Capitalised tokens as capitalize_words hands them to find_alias.
Atoms ==
    { <<>>,
      <<"G","a","m","e">>, <<"W","a","t","c","h">>,
      <<"B","a","n","j","o">>, <<"K","a","z","o","o","i","e">>,
      <<"R","o","s","a","l","i","n","a">>,
      <<"P","y","r","a">>, <<"M","y","t","h","r","a">>,
      Aegis, <<"D","k">>, <<"G","&","w">>, <<"G"," ","&"," ","W">>,
      <<"M","a","r","i","o">>, <<"g","a","m","e">> }

Tokens ==
    Atoms \cup { a \o <<" ">> \o b : a \in Atoms \ {<<>>}, b \in Atoms \ {<<>>} }

(***************************************************************************)
(* CharKind and the guild                                                  *)
(***************************************************************************)
Kinds == {"Main", "Secondary"}

postfix(kind) ==
    IF kind = "Main" THEN <<" ","m","a","i","n">>
    ELSE <<" ","s","e","c","o","n","d","a","r","y">>

GOLD == 15844367
DARK_GOLD == 12745742

colour(kind) == IF kind = "Main" THEN GOLD ELSE DARK_GOLD

\* format!("{char_name} {}", self.postfix())
role_name_for_char(kind, char_name) == char_name \o <<" ">> \o postfix(kind)

\* is_character_role that tests the suffix of "main" whatever the kind.
is_character_role_main_only(role, kind) == ends_with(role.name, postfix("Main"))

\* is_character_role that accepts the suffix of either kind.
is_character_role_either_kind(role, kind) ==
    \E other \in Kinds : ends_with(role.name, postfix(other))

is_character_role(role, kind) == ends_with(role.name, postfix(kind))

Remove(s, x) == SelectSeq(s, LAMBDA y : y # x)

Members == {"A", "B"}
Slots == {1, 2}

MaxInvocations == 2
MaxDeep == 3
MaxRoleId == 4
MaxFailures == 1

\* The interactions the gateway may deliver: who, which command, whether in a
\* guild, and the text of the "characters" option.
EngineTexts ==
    { <<>>,
      <<"d","k">>,
      <<"d","k",","," ","D","K">>,
      <<"d","k",",","a","b">> }

Interactions ==
    [member : Members, cmd : {"main", "secondary"}, guild : {TRUE},
     text : EngineTexts]
    \cup [member : {"A"}, cmd : {"ping"}, guild : {TRUE}, text : {<<"d","k">>}]
    \cup [member : {"B"}, cmd : {"main", "ping"}, guild : {FALSE},
          text : {<<"d","k">>}]

\* The interactions of the specification in which interactions overlap.
OverlappingInteractions ==
    [member : Members, cmd : {"main"}, guild : {TRUE},
     text : {<<>>, <<"d","k">>}]

CorruptRoleInstance == "corrupt role instance"
TransportError == "transport error"
RolesSuccessfullyUpdated == "Roles successfully updated"

(***************************************************************************)
(* State                                                                   *)
(***************************************************************************)
VARIABLES
    pin,        \* the call under test: [fn, arg]
    pout,       \* its return value, None until it has returned
    guildRoles, \* the guild's roles: role id -> [name, colour]
    dirMember,  \* the guild's members: user id -> sequence of role ids
    nextId,     \* the id the next created role gets
    pc,         \* per task of interaction_create: the await it is suspended at
    loc,        \* per task: its local variables
    calls,      \* per task: the remote calls it has issued so far
    pre,        \* per task: the guild as it was when the interaction arrived
    last,       \* the interaction that completed last and the guild it
                \* arrived in, None if it did not succeed
    started,    \* interactions received so far
    failures    \* remote calls that have failed so far
pvars == <<pin, pout>>
dvars == <<guildRoles, dirMember, nextId>>
evars == <<guildRoles, dirMember, nextId, pc, loc, calls, pre, last, started,
           failures>>
vars == <<pin, pout, guildRoles, dirMember, nextId, pc, loc, calls, pre, last,
          started, failures>>

NoLoc ==
    [member |-> "", cmd |-> "", guild |-> FALSE, kind |-> "",
     characters |-> <<>>, mroles |-> <<>>, members |-> <<>>, roles |-> <<>>,
     todo |-> <<>>, k |-> 0, c |-> 0, role_id |-> 0, ret |-> "none",
     result |-> "none", before |-> None]

ModRole == [name |-> <<"M","o","d">>, colour |-> 0]
DkMain == [name |-> role_name_for_char("Main", DonkeyKong), colour |-> colour("Main")]

\* The guild when the bot comes up: the roles "main" has left there so far.
\* Role 1 is a role of the guild that is no character role.
Guilds ==
    { [roles |-> (1 :> ModRole),
       held |-> [m \in Members |-> IF m = "A" THEN <<1>> ELSE <<>>],
       next |-> 2],
      [roles |-> (1 :> ModRole) @@ (2 :> DkMain),
       held |-> [m \in Members |-> IF m = "A" THEN <<1, 2>> ELSE <<>>],
       next |-> 3],
      [roles |-> (1 :> ModRole) @@ (2 :> DkMain),
       held |-> [m \in Members |-> IF m = "A" THEN <<1, 2>> ELSE <<2>>],
       next |-> 3] }

InitEngine ==
    /\ \E g \in Guilds :
        /\ guildRoles = g.roles
        /\ dirMember = g.held
        /\ nextId = g.next
    /\ pc = [i \in Slots |-> "idle"]
    /\ loc = [i \in Slots |-> NoLoc]
    /\ calls = [i \in Slots |-> <<>>]
    /\ pre = [i \in Slots |-> [roles |-> <<>>, held |-> <<>>]]
    /\ last = None
    /\ started = 0
    /\ failures = 0

InitParse ==
    /\ pin \in [fn : {"parse"}, arg : Texts] \cup [fn : {"find_alias"}, arg : Tokens]
    /\ pout = None
    /\ InitEngine

Init ==
    /\ pin = [fn |-> "none", arg |-> <<>>]
    /\ pout = None
    /\ InitEngine

(***************************************************************************)
(* The parser and the alias table as calls                                 *)
(***************************************************************************)
CallParse ==
    /\ pin.fn = "parse" /\ pout = None
    /\ pout' = Some(parse(pin.arg))
    /\ UNCHANGED <<pin, evars>>

CallFindAlias ==
    /\ pin.fn = "find_alias" /\ pout = None
    /\ pout' = Some(find_alias(pin.arg))
    /\ UNCHANGED <<pin, evars>>

NextParse == CallParse \/ CallFindAlias

SpecParse == InitParse /\ [][NextParse]_vars

(***************************************************************************)
(* interaction_create, handler_for_kind, clear and assign_characters.      *)
(* A task is suspended at each remote call; one action is one remote call  *)
(* with its outcome, or the local code between two remote calls.           *)
(***************************************************************************)
Free(i) == pc[i] \in {"idle", "returned", "done"}

Log(i, op, role, ok) ==
    calls' = [calls EXCEPT ![i] = Append(@, [op |-> op, role |-> role, ok |-> ok])]

\* A remote call returns Err: the ? operator returns it from clear or
\* assign_characters and from handler_for_kind.
Throw(i, op, role) ==
    /\ failures' = failures + 1
    /\ loc' = [loc EXCEPT ![i].ret = TransportError]
    /\ pc' = [pc EXCEPT ![i] = "respond"]
    /\ Log(i, op, role, FALSE)
    /\ UNCHANGED <<dvars, pre, last, started>>

MayFail == failures < MaxFailures

KindOf(cmd) == IF cmd = "main" THEN "Main" ELSE "Secondary"

\* Accepted without the match on the command name.
AcceptedInGuild(x) == x.guild

\* Lines 34-51: the interaction is handled only if it comes from a guild and
\* its command is "main" or "secondary".
Accepted(x) == x.guild /\ x.cmd \in {"main", "secondary"}

\* Lines 16-51: the option is parsed, then the guild and the command name are
\* checked; both rejections return without a response.
Arrive(i, x) ==
    LET accepted == Accepted(x) IN
    /\ Free(i)
    /\ loc' = [loc EXCEPT ![i] =
                 [NoLoc EXCEPT !.member = x.member, !.cmd = x.cmd,
                               !.guild = x.guild,
                               !.characters = parse(x.text),
                               !.kind = IF accepted THEN KindOf(x.cmd) ELSE "",
                               !.mroles = IF accepted THEN dirMember[x.member]
                                          ELSE <<>>,
                               !.before = IF accepted THEN last ELSE None]]
    /\ pc' = [pc EXCEPT ![i] = IF accepted THEN "members" ELSE "returned"]
    /\ last' = IF accepted THEN last ELSE None
    /\ calls' = [calls EXCEPT ![i] = <<>>]
    /\ pre' = [pre EXCEPT ![i] = [roles |-> guildRoles, held |-> dirMember]]
    /\ started' = started + 1
    /\ UNCHANGED <<pvars, dvars, failures>>

\* An interaction that may arrive while another is being handled.
\* Every task handles one interaction; the next one takes the next task.
Receive(i) ==
    /\ pc[i] = "idle" /\ \A j \in Slots : j < i => pc[j] # "idle"
    /\ \E x \in OverlappingInteractions : Arrive(i, x)

\* An interaction that arrives while no other is being handled.
ReceiveAlone(i) ==
    /\ started < MaxInvocations
    /\ \A j \in Slots : Free(j) /\ i <= j
    /\ \E x \in Interactions : Arrive(i, x)

\* The same, in longer runs.
ReceiveNext(i) ==
    /\ started < MaxDeep
    /\ \A j \in Slots : Free(j) /\ i <= j
    /\ \E x \in Interactions : Arrive(i, x)

\* Line 181: guild.members(ctx, None, None)
GuildMembers(i) ==
    /\ pc[i] = "members"
    /\ UNCHANGED pvars
    /\ \/ /\ loc' = [loc EXCEPT ![i].members = dirMember]
          /\ pc' = [pc EXCEPT ![i] = "clear_roles"]
          /\ Log(i, "members", 0, TRUE)
          /\ UNCHANGED <<dvars, pre, last, started, failures>>
       \/ MayFail /\ Throw(i, "members", 0)

\* Line 182: guild.roles(ctx), then line 184: member.roles.clone()
ClearRoles(i) ==
    /\ pc[i] = "clear_roles"
    /\ UNCHANGED pvars
    /\ \/ /\ loc' = [loc EXCEPT ![i].roles = guildRoles,
                                ![i].todo = loc[i].mroles, ![i].k = 1]
          /\ pc' = [pc EXCEPT ![i] = "clear_loop"]
          /\ Log(i, "roles", 0, TRUE)
          /\ UNCHANGED <<dvars, pre, last, started, failures>>
       \/ MayFail /\ Throw(i, "roles", 0)

\* ClearNext that skips a role the fetched role list lacks instead of
\* returning the corrupt-state error.
ClearNextSkipsMissing(i) ==
    /\ pc[i] = "clear_loop"
    /\ UNCHANGED pvars
    /\ LET l == loc[i] IN
       IF l.k > Len(l.todo)
       THEN /\ pc' = [pc EXCEPT ![i] = "assign_roles"]
            /\ UNCHANGED loc
       ELSE LET role_id == l.todo[l.k] IN
            IF role_id \in DOMAIN l.roles /\ is_character_role(l.roles[role_id], l.kind)
            THEN /\ loc' = [loc EXCEPT ![i].role_id = role_id]
                 /\ pc' = [pc EXCEPT ![i] = "remove_role"]
            ELSE /\ loc' = [loc EXCEPT ![i].k = l.k + 1]
                 /\ UNCHANGED pc
    /\ UNCHANGED <<dvars, calls, pre, last, started, failures>>

\* ClearNext that goes to the deletion of a character role without removing
\* it from the member first.
ClearNextDeletesFirst(i) ==
    /\ pc[i] = "clear_loop"
    /\ UNCHANGED pvars
    /\ LET l == loc[i] IN
       IF l.k > Len(l.todo)
       THEN /\ pc' = [pc EXCEPT ![i] = "assign_roles"]
            /\ UNCHANGED loc
       ELSE LET role_id == l.todo[l.k] IN
            IF role_id \notin DOMAIN l.roles
            THEN /\ loc' = [loc EXCEPT ![i].ret = CorruptRoleInstance]
                 /\ pc' = [pc EXCEPT ![i] = "respond"]
            ELSE IF is_character_role(l.roles[role_id], l.kind)
            THEN /\ loc' = [loc EXCEPT ![i].role_id = role_id]
                 /\ pc' = [pc EXCEPT ![i] = "delete_role"]
            ELSE /\ loc' = [loc EXCEPT ![i].k = l.k + 1]
                 /\ UNCHANGED pc
    /\ UNCHANGED <<dvars, calls, pre, last, started, failures>>

\* ClearNext that does not move on from a role that is no character role.
ClearNextRepeats(i) ==
    /\ pc[i] = "clear_loop"
    /\ UNCHANGED pvars
    /\ LET l == loc[i] IN
       IF l.k > Len(l.todo)
       THEN /\ pc' = [pc EXCEPT ![i] = "assign_roles"]
            /\ UNCHANGED loc
       ELSE LET role_id == l.todo[l.k] IN
            IF role_id \notin DOMAIN l.roles
            THEN /\ loc' = [loc EXCEPT ![i].ret = CorruptRoleInstance]
                 /\ pc' = [pc EXCEPT ![i] = "respond"]
            ELSE IF is_character_role(l.roles[role_id], l.kind)
            THEN /\ loc' = [loc EXCEPT ![i].role_id = role_id]
                 /\ pc' = [pc EXCEPT ![i] = "remove_role"]
            ELSE UNCHANGED <<loc, pc>>
    /\ UNCHANGED <<dvars, calls, pre, last, started, failures>>

\* Lines 184-189: the next role of the loop, up to the next remote call.
ClearNext(i) ==
    /\ pc[i] = "clear_loop"
    /\ UNCHANGED pvars
    /\ LET l == loc[i] IN
       IF l.k > Len(l.todo)
       THEN /\ pc' = [pc EXCEPT ![i] = "assign_roles"]
            /\ UNCHANGED loc
       ELSE LET role_id == l.todo[l.k] IN
            IF role_id \notin DOMAIN l.roles
            THEN /\ loc' = [loc EXCEPT ![i].ret = CorruptRoleInstance]
                 /\ pc' = [pc EXCEPT ![i] = "respond"]
            ELSE IF is_character_role(l.roles[role_id], l.kind)
            THEN /\ loc' = [loc EXCEPT ![i].role_id = role_id]
                 /\ pc' = [pc EXCEPT ![i] = "remove_role"]
            ELSE /\ loc' = [loc EXCEPT ![i].k = l.k + 1]
                 /\ UNCHANGED pc
    /\ UNCHANGED <<dvars, calls, pre, last, started, failures>>

\* is_role_empty without the exemption of the member itself.
is_role_empty_counts_self(members, self_, role) ==
    \A m \in DOMAIN members : role \notin Range(members[m])

\* is_role_empty with any in place of all.
is_role_empty_any(members, self_, role) ==
    \E m \in DOMAIN members : m = self_ \/ role \notin Range(members[m])

\* is_role_empty that asks the guild as it is now instead of the member
\* list fetched at the start of clear.
is_role_empty_refetched(members, self_, role) ==
    \A m \in DOMAIN dirMember : m = self_ \/ role \notin Range(dirMember[m])

\* members: the snapshot of guild.members, a function from user id to roles.
is_role_empty(members, self_, role) ==
    \A m \in DOMAIN members : m = self_ \/ role \notin Range(members[m])

\* RemoveRole without the ? operator: a failed removal is ignored and the
\* loop goes on.
RemoveRoleUnchecked(i) ==
    /\ pc[i] = "remove_role"
    /\ UNCHANGED pvars
    /\ LET l == loc[i] IN
       \/ /\ l.role_id \in DOMAIN guildRoles
          /\ dirMember' = [dirMember EXCEPT ![l.member] = Remove(@, l.role_id)]
          /\ IF is_role_empty(l.members, l.member, l.role_id)
             THEN /\ pc' = [pc EXCEPT ![i] = "delete_role"]
                  /\ UNCHANGED loc
             ELSE /\ pc' = [pc EXCEPT ![i] = "clear_loop"]
                  /\ loc' = [loc EXCEPT ![i].k = l.k + 1]
          /\ Log(i, "remove", l.role_id, TRUE)
          /\ UNCHANGED <<guildRoles, nextId, pre, last, started, failures>>
       \/ /\ MayFail \/ l.role_id \notin DOMAIN guildRoles
          /\ failures' = failures + 1
          /\ pc' = [pc EXCEPT ![i] = "clear_loop"]
          /\ loc' = [loc EXCEPT ![i].k = l.k + 1]
          /\ Log(i, "remove", l.role_id, FALSE)
          /\ UNCHANGED <<dvars, pre, last, started>>

\* RemoveRole without lines 193-196: the role is never deleted.
RemoveRoleNeverDeletes(i) ==
    /\ pc[i] = "remove_role"
    /\ UNCHANGED pvars
    /\ LET l == loc[i] IN
       \/ /\ l.role_id \in DOMAIN guildRoles
          /\ dirMember' = [dirMember EXCEPT ![l.member] = Remove(@, l.role_id)]
          /\ pc' = [pc EXCEPT ![i] = "clear_loop"]
          /\ loc' = [loc EXCEPT ![i].k = l.k + 1]
          /\ Log(i, "remove", l.role_id, TRUE)
          /\ UNCHANGED <<guildRoles, nextId, pre, last, started, failures>>
       \/ /\ MayFail \/ l.role_id \notin DOMAIN guildRoles
          /\ Throw(i, "remove", l.role_id)

\* Line 191: member.remove_role(ctx, role_id), then line 193.
RemoveRole(i) ==
    /\ pc[i] = "remove_role"
    /\ UNCHANGED pvars
    /\ LET l == loc[i] IN
       \/ /\ l.role_id \in DOMAIN guildRoles
          /\ dirMember' = [dirMember EXCEPT ![l.member] = Remove(@, l.role_id)]
          /\ IF is_role_empty(l.members, l.member, l.role_id)
             THEN /\ pc' = [pc EXCEPT ![i] = "delete_role"]
                  /\ UNCHANGED loc
             ELSE /\ pc' = [pc EXCEPT ![i] = "clear_loop"]
                  /\ loc' = [loc EXCEPT ![i].k = l.k + 1]
          /\ Log(i, "remove", l.role_id, TRUE)
          /\ UNCHANGED <<guildRoles, nextId, pre, last, started, failures>>
       \/ /\ MayFail \/ l.role_id \notin DOMAIN guildRoles
          /\ Throw(i, "remove", l.role_id)

\* Line 195: guild.delete_role(ctx, role_id); the guild takes the role from
\* every member that holds it.
DeleteRole(i) ==
    /\ pc[i] = "delete_role"
    /\ UNCHANGED pvars
    /\ LET l == loc[i] IN
       \/ /\ l.role_id \in DOMAIN guildRoles
          /\ guildRoles' = [r \in DOMAIN guildRoles \ {l.role_id} |-> guildRoles[r]]
          /\ dirMember' = [m \in Members |-> Remove(dirMember[m], l.role_id)]
          /\ pc' = [pc EXCEPT ![i] = "clear_loop"]
          /\ loc' = [loc EXCEPT ![i].k = l.k + 1]
          /\ Log(i, "delete", l.role_id, TRUE)
          /\ UNCHANGED <<nextId, pre, last, started, failures>>
       \/ /\ MayFail \/ l.role_id \notin DOMAIN guildRoles
          /\ Throw(i, "delete", l.role_id)

\* Line 210: guild.roles(ctx) of assign_characters.
AssignRoles(i) ==
    /\ pc[i] = "assign_roles"
    /\ UNCHANGED pvars
    /\ \/ /\ loc' = [loc EXCEPT ![i].roles = guildRoles, ![i].c = 1]
          /\ pc' = [pc EXCEPT ![i] = "assign_loop"]
          /\ Log(i, "roles", 0, TRUE)
          /\ UNCHANGED <<dvars, pre, last, started, failures>>
       \/ MayFail /\ Throw(i, "roles", 0)

\* FindRole that finds no role.
FindRoleNever(roles, name) == {}

\* FindRole that looks the name up in the guild as it is now, not in the
\* role list fetched at the start of assign_characters.
FindRoleInGuild(roles, name) ==
    { r \in DOMAIN guildRoles : guildRoles[r].name = name }

\* roles.values().find(|role| role.name == name): the roles it may return.
\* The map is a HashMap, so among several matches any one may come first.
FindRole(roles, name) == { r \in DOMAIN roles : roles[r].name = name }

\* Lines 212-215 and 232: the next character of the loop.
AssignNext(i) ==
    /\ pc[i] = "assign_loop"
    /\ UNCHANGED pvars
    /\ LET l == loc[i] IN
       IF l.c > Len(l.characters)
       THEN /\ loc' = [loc EXCEPT ![i].ret = "Ok"]
            /\ pc' = [pc EXCEPT ![i] = "respond"]
       ELSE LET found == FindRole(l.roles, role_name_for_char(l.kind, l.characters[l.c]))
            IN  IF found # {}
                THEN /\ \E r \in found : loc' = [loc EXCEPT ![i].role_id = r]
                     /\ pc' = [pc EXCEPT ![i] = "add_existing"]
                ELSE /\ pc' = [pc EXCEPT ![i] = "create_role"]
                     /\ UNCHANGED loc
    /\ UNCHANGED <<dvars, calls, pre, last, started, failures>>

\* member.add_role(ctx, role_id) of lines 220 and 228.
AddRole(i) ==
    LET l == loc[i] IN
    \/ /\ l.role_id \in DOMAIN guildRoles
       /\ dirMember' = [dirMember EXCEPT ![l.member] =
                          IF l.role_id \in Range(@) THEN @ ELSE Append(@, l.role_id)]
       /\ pc' = [pc EXCEPT ![i] = "assign_loop"]
       /\ loc' = [loc EXCEPT ![i].c = l.c + 1]
       /\ Log(i, "add", l.role_id, TRUE)
       /\ UNCHANGED <<guildRoles, nextId, pre, last, started, failures>>
    \/ /\ MayFail \/ l.role_id \notin DOMAIN guildRoles
       /\ Throw(i, "add", l.role_id)

\* Line 220
AddExistingRole(i) ==
    pc[i] = "add_existing" /\ AddRole(i) /\ UNCHANGED pvars

\* Line 223: new_role(ctx, guild, &role_name_for_char, self.colour())
CreateRole(i) ==
    /\ pc[i] = "create_role"
    /\ UNCHANGED pvars
    /\ LET l == loc[i] IN
       \/ /\ nextId <= MaxRoleId
          /\ guildRoles' = guildRoles @@
                (nextId :> [name |-> role_name_for_char(l.kind, l.characters[l.c]),
                            colour |-> colour(l.kind)])
          /\ nextId' = nextId + 1
          /\ loc' = [loc EXCEPT ![i].role_id = nextId]
          /\ pc' = [pc EXCEPT ![i] = "add_new"]
          /\ Log(i, "create", nextId, TRUE)
          /\ UNCHANGED <<dirMember, pre, last, started, failures>>
       \/ MayFail /\ Throw(i, "create", 0)

\* Line 228
AddNewRole(i) ==
    pc[i] = "add_new" /\ AddRole(i) /\ UNCHANGED pvars

\* ResponseText that ignores the error.
ResponseTextAlwaysOk(ret) == RolesSuccessfullyUpdated

\* Lines 53-60: err.to_string() of the error handler_for_kind returned, or
\* the success text.
ResponseText(ret) == IF ret = "Ok" THEN RolesSuccessfullyUpdated ELSE ret

\* Lines 53-71: the response text, and create_interaction_response; a failure
\* to respond is only logged.
Respond(i) ==
    /\ pc[i] = "respond"
    /\ UNCHANGED pvars
    /\ LET l == loc[i] IN
       /\ loc' = [loc EXCEPT ![i].result = ResponseText(l.ret)]
       /\ last' = IF l.ret = "Ok"
                  THEN Some([member |-> l.member, kind |-> l.kind,
                             characters |-> l.characters, pre |-> pre[i]])
                  ELSE None
    /\ pc' = [pc EXCEPT ![i] = "done"]
    /\ \/ Log(i, "respond", 0, TRUE) /\ UNCHANGED failures
       \/ MayFail /\ Log(i, "respond", 0, FALSE) /\ failures' = failures + 1
    /\ UNCHANGED <<dvars, pre, started>>

\* Interactions are handled concurrently: each is its own task.
Next ==
    \/ \E i \in Slots : Receive(i)
    \/ \E i \in Slots : GuildMembers(i)
    \/ \E i \in Slots : ClearRoles(i)
    \/ \E i \in Slots : ClearNext(i)
    \/ \E i \in Slots : RemoveRole(i)
    \/ \E i \in Slots : DeleteRole(i)
    \/ \E i \in Slots : AssignRoles(i)
    \/ \E i \in Slots : AssignNext(i)
    \/ \E i \in Slots : AddExistingRole(i)
    \/ \E i \in Slots : CreateRole(i)
    \/ \E i \in Slots : AddNewRole(i)
    \/ \E i \in Slots : Respond(i)

Spec == Init /\ [][Next]_vars

\* The steps of the task of one interaction once it has been received.
Step(i) ==
    \/ GuildMembers(i)
    \/ ClearRoles(i)
    \/ ClearNext(i)
    \/ RemoveRole(i)
    \/ DeleteRole(i)
    \/ AssignRoles(i)
    \/ AssignNext(i)
    \/ AddExistingRole(i)
    \/ CreateRole(i)
    \/ AddNewRole(i)
    \/ Respond(i)

\* The runtime keeps polling every task, and every remote call returns a
\* result or an error in the end.
SpecLive == Init /\ [][Next]_vars /\ \A i \in Slots : WF_vars(Step(i))

\* Interactions that do not overlap.
NextSeq ==
    \/ \E i \in Slots : ReceiveAlone(i)
    \/ \E i \in Slots : GuildMembers(i)
    \/ \E i \in Slots : ClearRoles(i)
    \/ \E i \in Slots : ClearNext(i)
    \/ \E i \in Slots : RemoveRole(i)
    \/ \E i \in Slots : DeleteRole(i)
    \/ \E i \in Slots : AssignRoles(i)
    \/ \E i \in Slots : AssignNext(i)
    \/ \E i \in Slots : AddExistingRole(i)
    \/ \E i \in Slots : CreateRole(i)
    \/ \E i \in Slots : AddNewRole(i)
    \/ \E i \in Slots : Respond(i)

SpecSeq == Init /\ [][NextSeq]_vars

\* Longer runs of interactions that do not overlap.
NextDeep ==
    \/ \E i \in Slots : ReceiveNext(i)
    \/ \E i \in Slots : GuildMembers(i)
    \/ \E i \in Slots : ClearRoles(i)
    \/ \E i \in Slots : ClearNext(i)
    \/ \E i \in Slots : RemoveRole(i)
    \/ \E i \in Slots : DeleteRole(i)
    \/ \E i \in Slots : AssignRoles(i)
    \/ \E i \in Slots : AssignNext(i)
    \/ \E i \in Slots : AddExistingRole(i)
    \/ \E i \in Slots : CreateRole(i)
    \/ \E i \in Slots : AddNewRole(i)
    \/ \E i \in Slots : Respond(i)

SpecDeep == Init /\ [][NextDeep]_vars

(***************************************************************************)
(* Properties of the parser and of the alias table (SpecParse)             *)
(***************************************************************************)
Parsed == pin.fn = "parse" /\ pout # None
Resolved == pin.fn = "find_alias" /\ pout # None

NoDuplicates(s) == \A i, j \in DOMAIN s : s[i] = s[j] => i = j

Mario == <<"M","a","r","i","o">>
Luigi == <<"L","u","i","g","i">>

\* C5: the result of parse holds no name twice (two pieces that resolve to
\* the same canonical name give one entry, at its first occurrence), and
\* parse("Mario, Luigi, mario") is <<"Mario", "Luigi">>.
C5_ParseHasNoDuplicates ==
    Parsed => /\ NoDuplicates(pout[2])
              /\ pin.arg = ExampleOrder => pout[2] = <<Mario, Luigi>>

\* The rules of the alias table as the specification numbers them: whether
\* rule n applies to a token, and what it yields.
RuleApplies(n, t) ==
    CASE n = 1 -> contains(t, <<"G","a","m","e">>)
                  \/ contains(t, <<"W","a","t","c","h">>)
      [] n = 2 -> contains(t, <<"B","a","n","j","o">>)
                  \/ contains(t, <<"K","a","z","o","o","i","e">>)
      [] n = 3 -> contains(t, <<"R","o","s","a","l","i","n","a">>)
      [] n = 4 -> (contains(t, <<"P","y","r","a">>)
                   /\ contains(t, <<"M","y","t","h","r","a">>))
                  \/ contains(t, <<"A","e","g","i","s">>)
      [] n = 5 -> t \in {<<"D","k">>, <<"G","&","w">>, <<"G"," ","&"," ","W">>}
      [] n = 6 -> TRUE

RuleYields(n, t) ==
    CASE n \in {1, 2} -> GameAndWatch
      [] n = 3 -> RosalinaAndLuma
      [] n = 4 -> Aegis
      [] n = 5 -> IF t = <<"D","k">> THEN DonkeyKong ELSE GameAndWatch
      [] n = 6 -> t

FirstRule(t) ==
    CHOOSE n \in 1..6 : RuleApplies(n, t) /\ \A k \in 1..(n - 1) : ~RuleApplies(k, t)

RosalinaAegis ==
    <<"R","o","s","a","l","i","n","a"," ","A","e","g","i","s">>

\* C7: find_alias returns, for every token, what the lowest-numbered rule
\* that applies to it yields (rule 6 applies to every token); a token that
\* holds both "Rosalina" and "Aegis" gives "Rosalina & Luma"; the result
\* of a non-empty token is non-empty.  The same holds of every piece that
\* parse hands to the alias table.
C7_AliasFirstMatchWins ==
    /\ Resolved =>
          /\ pout[2] = RuleYields(FirstRule(pin.arg), pin.arg)
          /\ pin.arg # <<>> => pout[2] # <<>>
          /\ pin.arg = RosalinaAegis => pout[2] = RosalinaAndLuma
    /\ Parsed =>
          /\ Len(pout[2]) = Len(Normalized(pin.arg))
          /\ \A n \in DOMAIN pout[2] :
                /\ pout[2][n] = RuleYields(FirstRule(Normalized(pin.arg)[n]),
                                           Normalized(pin.arg)[n])
                /\ pout[2][n] # <<>>

\* A token to which rules 3 and 4 both apply has been resolved.
C7_Witness == Resolved /\ pin.arg = RosalinaAegis /\ pout[2] = RosalinaAndLuma

\* What the specification says of letters: every letter has an upper and a
\* lower case, and the length of a piece is its number of characters.
ToUpper(c) == IF c = NonAsciiLower THEN NonAsciiUpper ELSE make_ascii_uppercase(c)
ToLower(c) == IF c = NonAsciiUpper THEN NonAsciiLower ELSE make_ascii_lowercase(c)

StatedCapitalize(s) ==
    [n \in DOMAIN s |->
        IF n = 1 \/ s[n - 1] = " " THEN ToUpper(s[n]) ELSE ToLower(s[n])]

StatedKeep(p) == Len(p) > 1

StatedNormalized(text) ==
    LET parts == split(text)
        kept  == SelectSeq([n \in DOMAIN parts |-> trim(parts[n])], StatedKeep)
    IN  [n \in DOMAIN kept |-> StatedCapitalize(kept[n])]

\* C8: parse resolves exactly the pieces the stated normalisation gives:
\* split on commas, trimmed, pieces of at most one character dropped, a
\* letter in upper case when it is first or follows a space and in lower
\* case otherwise; parse("MARIO") is <<"Mario">>, parse("mario luigi") is
\* <<"Mario Luigi">>, and a text of commas, whitespace and pieces of one
\* character gives the empty result.
C8_ParseNormalizesPieces ==
    Parsed =>
        /\ pout[2] = [n \in DOMAIN StatedNormalized(pin.arg) |->
                         find_alias(StatedNormalized(pin.arg)[n])]
        /\ (\A n \in DOMAIN split(pin.arg) : Len(trim(split(pin.arg)[n])) <= 1)
              => pout[2] = <<>>

(***************************************************************************)
(* Properties of the synchronisation (SpecSeq, Spec)                       *)
(***************************************************************************)
\* The suffix of a category as the specification gives it.
StatedSuffix(kind) ==
    IF kind = "Main" THEN <<" ","m","a","i","n">>
    ELSE <<" ","s","e","c","o","n","d","a","r","y">>

\* The roles of category kind among ids, by the names in roles.
TagRoles(ids, roles, kind) ==
    { r \in ids : r \in DOMAIN roles /\ ends_with(roles[r].name, StatedSuffix(kind)) }

Handled(i) == loc[i].kind \in Kinds
Succeeded(i) == Handled(i) /\ loc[i].ret = "Ok"

\* The remote calls of task i other than the response.
EngineCalls(i) == SelectSeq(calls[i], LAMBDA e : e.op # "respond")
CallsOf(i, op) == SelectSeq(calls[i], LAMBDA e : e.op = op)
Mutations == {"remove", "delete", "create", "add"}

\* C1: when an interaction that overlapped no other has succeeded for
\* category C and characters S, the names of the C roles its member holds
\* are exactly the role names of the characters of S, and every role the
\* member holds exists; with S empty the member holds no C role.
C1_MemberHoldsExactlyDesired ==
    \A i \in Slots :
        Succeeded(i) =>
            LET l == loc[i]
                held == TagRoles(Range(dirMember[l.member]), guildRoles, l.kind)
            IN  /\ Range(dirMember[l.member]) \subseteq DOMAIN guildRoles
                /\ { guildRoles[r].name : r \in held }
                     = { role_name_for_char(l.kind, l.characters[n]) :
                            n \in DOMAIN l.characters }
                /\ l.characters = <<>> => held = {}

\* A success that replaced a role the member held by two roles.
C1_Witness ==
    \E i \in Slots :
        /\ Succeeded(i) /\ pc[i] = "done"
        /\ Len(loc[i].characters) = 2 /\ NoDuplicates(loc[i].characters)
        /\ TagRoles(Range(pre[i].held[loc[i].member]), pre[i].roles, loc[i].kind) # {}
        /\ Len(CallsOf(i, "delete")) = 1

\* C2: when an interaction of member A with no characters has succeeded for
\* category C, A holds none of the C roles it held when the interaction
\* arrived; such a role that no other member held is gone from the guild,
\* and one that another member held is still in the guild and still held
\* by that member.
C2_ClearingCollectsGarbage ==
    \A i \in Slots :
        (Succeeded(i) /\ loc[i].characters = <<>>) =>
            LET a == loc[i].member
                others(r) == { b \in Members \ {a} : r \in Range(pre[i].held[b]) }
            IN  \A r \in TagRoles(Range(pre[i].held[a]), pre[i].roles, loc[i].kind) :
                    /\ r \notin Range(dirMember[a])
                    /\ others(r) = {} => r \notin DOMAIN guildRoles
                    /\ others(r) # {} =>
                          /\ r \in DOMAIN guildRoles
                          /\ \A b \in others(r) : r \in Range(dirMember[b])

\* A member has cleared a role it held alone and a role another member holds.
C2_Witness ==
    \E i \in Slots :
        /\ Succeeded(i) /\ loc[i].characters = <<>>
        /\ LET a == loc[i].member
               mine == TagRoles(Range(pre[i].held[a]), pre[i].roles, loc[i].kind)
           IN  /\ \E r \in mine : r \notin DOMAIN guildRoles
               /\ \E r \in mine : \E b \in Members \ {a} : r \in Range(dirMember[b])

\* The roles of the member's list that the loop of clear has passed.
Passed(i) ==
    LET l == loc[i] IN
    IF pc[i] = "clear_loop" THEN { l.todo[n] : n \in 1..(l.k - 1) }
    ELSE IF pc[i] \in {"remove_role", "delete_role"} THEN { l.todo[n] : n \in 1..l.k }
    ELSE IF pc[i] = "assign_roles" THEN Range(l.todo)
    ELSE {}

\* C3: the loop of clear never passes a role of the member's list that the
\* role list fetched by clear lacks, so clear never returns Ok with such a
\* role on the list; once the role is met the error is "corrupt role
\* instance", that text is the response, and the task's remote calls are
\* the two fetches of clear and the removals and deletions for roles
\* earlier on the list: no creation, no addition, no second fetch of the
\* role list, and nothing for the role met or for a later one.
C3_CorruptStateAborts ==
    \A i \in Slots :
        LET l == loc[i] IN
        /\ Passed(i) \subseteq DOMAIN l.roles
        /\ l.ret = CorruptRoleInstance =>
              /\ pc[i] \in {"respond", "done"}
              /\ l.k \in DOMAIN l.todo /\ l.todo[l.k] \notin DOMAIN l.roles
              /\ l.result \in {"none", CorruptRoleInstance}
              /\ pc[i] = "done" => l.result = CorruptRoleInstance
              /\ Len(CallsOf(i, "roles")) = 1
              /\ \A n \in DOMAIN calls[i] :
                    /\ calls[i][n].op \notin {"create", "add"}
                    /\ calls[i][n].op \in {"remove", "delete"} =>
                          /\ calls[i][n].ok
                          /\ \E j \in 1..(l.k - 1) : l.todo[j] = calls[i][n].role

\* A task has met a role that another task deleted after the interaction
\* arrived, and has responded.
C3_Witness ==
    \E i \in Slots :
        /\ loc[i].ret = CorruptRoleInstance /\ pc[i] = "done"
        /\ loc[i].todo[loc[i].k] \in DOMAIN pre[i].roles

CountNamed(roles, name) == Cardinality({ r \in DOMAIN roles : roles[r].name = name })

\* The interaction of task i is the second of two successful interactions
\* in a row of one member for one category and one character, and the guild
\* held at most one role of that character's role name before the first.
SecondOfTwo(i) ==
    /\ Succeeded(i) /\ Len(loc[i].characters) = 1
    /\ loc[i].before # None
    /\ LET b == loc[i].before[2] IN
       /\ b.member = loc[i].member /\ b.kind = loc[i].kind
       /\ b.characters = loc[i].characters
       /\ CountNamed(b.pre.roles,
                     role_name_for_char(loc[i].kind, loc[i].characters[1])) <= 1

\* C4: after the second of two such interactions the guild holds exactly
\* one role of the character's role name and the member holds it; the
\* second interaction has created at most one role, and none when another
\* member holds the role.
C4_SecondInvocationCreatesNoDuplicate ==
    \A i \in Slots :
        SecondOfTwo(i) =>
            LET l == loc[i]
                name == role_name_for_char(l.kind, l.characters[1])
            IN  /\ CountNamed(guildRoles, name) = 1
                /\ \E r \in Range(dirMember[l.member]) :
                      r \in DOMAIN guildRoles /\ guildRoles[r].name = name
                /\ Len(CallsOf(i, "create")) <= 1
                /\ (\E b \in Members \ {l.member} : \E r \in Range(pre[i].held[b]) :
                        r \in DOMAIN pre[i].roles /\ pre[i].roles[r].name = name)
                      => Len(CallsOf(i, "create")) = 0

\* The second of two such interactions is complete and another member holds
\* the role too.
C4_Witness ==
    \E i \in Slots :
        /\ SecondOfTwo(i) /\ pc[i] = "done"
        /\ \E b \in Members \ {loc[i].member} : \E r \in Range(dirMember[b]) :
              /\ r \in Range(dirMember[loc[i].member])
              /\ guildRoles[r].name =
                    role_name_for_char(loc[i].kind, loc[i].characters[1])

\* C6: when an interaction that arrived in a guild with no role of category
\* C has succeeded with every remote call succeeding, and its characters
\* hold n distinct names, it has created exactly n roles, each of C's
\* colour (15844367 for "main", 12745742 for "secondary"), has added these
\* n roles to the member in the order of the characters, and responds
\* "Roles successfully updated".
C6_FreshGuildOneRolePerTag ==
    \A i \in Slots :
        (/\ Succeeded(i)
         /\ TagRoles(DOMAIN pre[i].roles, pre[i].roles, loc[i].kind) = {}
         /\ \A n \in DOMAIN calls[i] : calls[i][n].ok) =>
            LET l == loc[i]
                n == Cardinality(Range(l.characters))
                created == CallsOf(i, "create")
                added == CallsOf(i, "add")
            IN  /\ Len(created) = n /\ Len(added) = n
                /\ \A k \in DOMAIN created :
                      /\ created[k].role \in DOMAIN guildRoles
                      /\ guildRoles[created[k].role].colour =
                            (IF l.kind = "Main" THEN 15844367 ELSE 12745742)
                      /\ added[k].role = created[k].role
                      /\ guildRoles[created[k].role].name =
                            role_name_for_char(l.kind, l.characters[k])
                /\ l.result \in {"none", "Roles successfully updated"}

\* C9: an interaction without a guild, or whose command is neither "main"
\* nor "secondary", returns with no remote call issued, no response, and
\* the guild as it was when the interaction arrived.
C9_RejectedBeforeAnyRemoteCall ==
    \A i \in Slots :
        (pc[i] # "idle" /\ (~loc[i].guild \/ loc[i].cmd \notin {"main", "secondary"})) =>
            /\ pc[i] = "returned"
            /\ calls[i] = <<>>
            /\ loc[i].result = "none"
            /\ guildRoles = pre[i].roles /\ dirMember = pre[i].held

\* An interaction with an unknown command has returned.
C9_Witness ==
    \E i \in Slots : pc[i] = "returned" /\ loc[i].guild /\ loc[i].cmd = "ping"

\* C10: a handled interaction responds once, when handler_for_kind has
\* returned; the text is "Roles successfully updated" exactly when clear
\* and assign_characters returned Ok, which they do only with no remote
\* call failed, both role lists fetched and one addition per character;
\* otherwise the text is the error returned, which is that of the first
\* and only remote call that failed, or the corrupt-state error.
C10_OneResponsePerInvocation ==
    \A i \in Slots :
        Handled(i) =>
            LET l == loc[i]
                log == EngineCalls(i)
                failed == { n \in DOMAIN log : ~log[n].ok }
            IN  /\ Len(CallsOf(i, "respond")) = (IF pc[i] = "done" THEN 1 ELSE 0)
                /\ (l.result # "none") <=> (pc[i] = "done")
                /\ pc[i] \in {"respond", "done"} <=> l.ret # "none"
                /\ l.ret = "Ok" =>
                      /\ failed = {}
                      /\ Len(CallsOf(i, "roles")) = 2
                      /\ Len(CallsOf(i, "add")) = Len(l.characters)
                /\ l.ret = TransportError => failed = {Len(log)}
                /\ l.ret = CorruptRoleInstance => failed = {}
                /\ l.ret = "none" => failed = {}
                /\ pc[i] = "done" =>
                      /\ (l.result = "Roles successfully updated") <=> (l.ret = "Ok")
                      /\ l.ret # "Ok" => l.result = l.ret

\* An interaction has responded with the error of a failed removal.
C10_Witness ==
    \E i \in Slots :
        /\ pc[i] = "done" /\ loc[i].result = TransportError
        /\ Len(CallsOf(i, "remove")) = 1 /\ ~CallsOf(i, "remove")[1].ok

\* The role names of the characters of task i.
DesiredNames(i) ==
    { role_name_for_char(loc[i].kind, loc[i].characters[n]) :
         n \in DOMAIN loc[i].characters }

\* The interaction of task i asks for what its member held when it arrived:
\* the characters are distinct, the member held one role of its category
\* per character and no other, and each of these names was the name of one
\* role of the guild only.
Reinvoked(i) ==
    LET l == loc[i]
        mine == TagRoles(Range(pre[i].held[l.member]), pre[i].roles, l.kind)
    IN  /\ Handled(i) /\ l.characters # <<>> /\ NoDuplicates(l.characters)
        /\ { pre[i].roles[r].name : r \in mine } = DesiredNames(i)
        /\ Cardinality(mine) = Len(l.characters)
        /\ \A name \in DesiredNames(i) : CountNamed(pre[i].roles, name) = 1

\* The role of that name the member held when the interaction arrived.
HeldBefore(i, name) ==
    CHOOSE r \in Range(pre[i].held[loc[i].member]) :
        r \in DOMAIN pre[i].roles /\ pre[i].roles[r].name = name

SharedBefore(i, r) ==
    \E b \in Members \ {loc[i].member} : r \in Range(pre[i].held[b])

OpsOn(i, r) ==
    LET on == SelectSeq(calls[i], LAMBDA e : e.role = r /\ e.op \in Mutations)
    IN  [n \in DOMAIN on |-> on[n].op]

\* C11 as stated: when such an interaction has succeeded, every role the
\* member held for its characters is still in the guild and still held by
\* the member, the interaction has created and deleted no role, and its
\* mutations are one removal and one addition of each of these roles.
C11_ReinvocationPreservesRoleIdentity ==
    \A i \in Slots :
        (Succeeded(i) /\ Reinvoked(i)) =>
            /\ \A name \in DesiredNames(i) :
                  LET r == HeldBefore(i, name) IN
                  /\ r \in DOMAIN guildRoles
                  /\ r \in Range(dirMember[loc[i].member])
                  /\ OpsOn(i, r) = <<"remove", "add">>
            /\ CallsOf(i, "create") = <<>> /\ CallsOf(i, "delete") = <<>>

\* C11 amended: a role that another member held too keeps its id, stays the
\* member's, and is removed and added once and neither deleted nor created
\* anew; a role the member held alone is removed and deleted, and a role of
\* the same name with another id is created and added to the member. The
\* guild holds one role of each name as before.
C11_ReinvocationKeepsSharedRoles ==
    \A i \in Slots :
        (Succeeded(i) /\ Reinvoked(i)) =>
            \A name \in DesiredNames(i) :
                LET r == HeldBefore(i, name)
                    a == loc[i].member
                IN  /\ CountNamed(guildRoles, name) = 1
                    /\ SharedBefore(i, r) =>
                          /\ r \in DOMAIN guildRoles /\ r \in Range(dirMember[a])
                          /\ OpsOn(i, r) = <<"remove", "add">>
                          /\ \A n \in DOMAIN calls[i] :
                                calls[i][n].op = "create" =>
                                    guildRoles[calls[i][n].role].name # name
                    /\ ~SharedBefore(i, r) =>
                          /\ r \notin DOMAIN guildRoles
                          /\ OpsOn(i, r) = <<"remove", "delete">>
                          /\ \E q \in Range(dirMember[a]) \ {r} :
                                /\ q \in DOMAIN guildRoles
                                /\ guildRoles[q].name = name
                                /\ OpsOn(i, q) = <<"create", "add">>

\* A member has asked again for a role it shares with another member.
C11_Witness ==
    \E i \in Slots :
        /\ Succeeded(i) /\ Reinvoked(i) /\ pc[i] = "done"
        /\ \E name \in DesiredNames(i) : SharedBefore(i, HeldBefore(i, name))

\* C12: between interactions that do not overlap, no two roles of the
\* guild have the same name.
C12_RoleNamesPairwiseDistinct ==
    (\A i \in Slots : Free(i)) =>
        \A r, q \in DOMAIN guildRoles :
            guildRoles[r].name = guildRoles[q].name => r = q

\* The role name of a tag as the specification gives it: the tag
\* immediately followed by the suffix, "Mario main" for Mario in "main".
StatedRoleName(kind, tag) == tag \o StatedSuffix(kind)

\* C13: the name assign_characters looks up for a character, and gives to
\* the role it creates when there is none, is the character immediately
\* followed by the suffix of the category: a role it creates has that name,
\* a role it adds as existing has that name, and it creates a role only
\* when the role list it fetched holds no role of that name.
C13_RoleNameIsTagThenSuffix ==
    \A i \in Slots :
        LET l == loc[i] IN
        /\ pc[i] = "add_new" =>
              guildRoles[l.role_id].name = StatedRoleName(l.kind, l.characters[l.c])
        /\ pc[i] = "add_existing" =>
              l.roles[l.role_id].name = StatedRoleName(l.kind, l.characters[l.c])
        /\ pc[i] = "create_role" =>
              CountNamed(l.roles, StatedRoleName(l.kind, l.characters[l.c])) = 0

\* The step is one in which a remote call of task i returns an error.
CallFails(i) ==
    /\ Len(EngineCalls(i)') = Len(EngineCalls(i)) + 1
    /\ ~EngineCalls(i)'[Len(EngineCalls(i)')].ok

\* C14: a remote call of clear or assign_characters that fails changes
\* nothing in the guild and makes handler_for_kind return its error; from
\* then on the task issues no remote call but the response and the guild
\* stays as the calls that succeeded before have left it.
C14_FailFastWithoutRollback ==
    [][\A i \in Slots :
          /\ CallFails(i) =>
                /\ dvars' = dvars
                /\ loc'[i].ret = TransportError
                /\ pc'[i] = "respond"
          /\ (loc[i].ret = TransportError /\ pc[i] = "respond") =>
                /\ dvars' = dvars
                /\ EngineCalls(i)' = EngineCalls(i)
                /\ pc'[i] = "done"
          /\ (loc[i].ret = TransportError /\ pc[i] = "done"
                /\ loc'[i].ret = TransportError) =>
                /\ dvars' = dvars
                /\ EngineCalls(i)' = EngineCalls(i)]_vars

\* An interaction has failed after a removal and has left its member
\* without a role it held, and has issued nothing after the failed call.
C14_Witness ==
    \E i \in Slots :
        /\ loc[i].ret = TransportError /\ pc[i] = "done"
        /\ Len(CallsOf(i, "remove")) = 1 /\ CallsOf(i, "remove")[1].ok
        /\ dirMember[loc[i].member] # pre[i].held[loc[i].member]
        /\ Len(loc[i].characters) > 0 /\ CallsOf(i, "add") = <<>>

\* How many times the role list was fetched before call n of a log.
FetchesBefore(log, n) ==
    Cardinality({ m \in 1..(n - 1) : log[m].op = "roles" })

\* C15: in the remote calls of one interaction, every removal and deletion
\* comes after the one fetch of clear and before the fetch of the role list
\* by assign_characters, and every creation and addition after that second
\* fetch; the second fetch is issued only when every call before it has
\* succeeded and clear has not met a corrupt role; and a deletion comes
\* directly after the successful removal of the same role from the member.
C15_ClearingBeforeAssigning ==
    \A i \in Slots :
        LET log == EngineCalls(i) IN
        \A n \in DOMAIN log :
            /\ n = 1 <=> log[n].op = "members"
            /\ log[n].op \in {"remove", "delete"} => FetchesBefore(log, n) = 1
            /\ log[n].op \in {"create", "add"} => FetchesBefore(log, n) = 2
            /\ log[n].op = "roles" =>
                  /\ FetchesBefore(log, n) <= 1
                  /\ \A m \in 1..(n - 1) : log[m].ok
                  /\ FetchesBefore(log, n) = 1 => loc[i].ret # CorruptRoleInstance
            /\ log[n].op = "delete" =>
                  /\ log[n - 1].op = "remove" /\ log[n - 1].ok
                  /\ log[n - 1].role = log[n].role

\* An interaction has removed and deleted a role, then fetched the role
\* list again, created a role and added it.
C15_Witness ==
    \E i \in Slots :
        /\ pc[i] = "done" /\ loc[i].ret = "Ok"
        /\ Len(CallsOf(i, "delete")) = 1 /\ Len(CallsOf(i, "create")) = 1
        /\ Len(CallsOf(i, "add")) = 1

\* Tasks i and j have both succeeded for two members, one category and one
\* character, and the role list assign_characters fetched held no role of
\* the character's role name in either.
BothSawNone(i, j) ==
    /\ i # j /\ Succeeded(i) /\ Succeeded(j)
    /\ pc[i] = "done" /\ pc[j] = "done"
    /\ loc[i].member # loc[j].member /\ loc[i].kind = loc[j].kind
    /\ Len(loc[i].characters) = 1 /\ loc[i].characters = loc[j].characters
    /\ LET name == role_name_for_char(loc[i].kind, loc[i].characters[1])
       IN  CountNamed(loc[i].roles, name) = 0 /\ CountNamed(loc[j].roles, name) = 0

\* C16: when two overlapping interactions of two members for one category
\* and one character have both fetched a role list without the character's
\* role, both end successfully, each has created a role of that name and
\* holds its own, and the guild holds two roles of the same name.
C16_BothCreateWhenBothSawNone ==
    \A i, j \in Slots :
        BothSawNone(i, j) =>
            LET name == role_name_for_char(loc[i].kind, loc[i].characters[1])
                ci == CallsOf(i, "create")
                cj == CallsOf(j, "create")
            IN  /\ Len(ci) = 1 /\ Len(cj) = 1 /\ ci[1].role # cj[1].role
                /\ CountNamed(guildRoles, name) = 2
                /\ guildRoles[ci[1].role].name = name
                /\ guildRoles[cj[1].role].name = name
                /\ ci[1].role \in Range(dirMember[loc[i].member])
                /\ cj[1].role \in Range(dirMember[loc[j].member])
                /\ loc[i].result = RolesSuccessfullyUpdated
                /\ loc[j].result = RolesSuccessfullyUpdated

\* Two such interactions that arrived in a guild with no role of the
\* character are complete and the guild holds two roles of one name.
C16_Witness ==
    \E i, j \in Slots :
        /\ BothSawNone(i, j)
        /\ LET name == role_name_for_char(loc[i].kind, loc[i].characters[1])
           IN  /\ CountNamed(pre[i].roles, name) = 0
               /\ CountNamed(pre[j].roles, name) = 0
               /\ CountNamed(guildRoles, name) = 2

\* No other member holds role r in the member list task i has fetched.
AloneInSnapshot(i, r) ==
    \A b \in Members \ {loc[i].member} : r \notin Range(loc[i].members[b])

\* C17: clear decides on the member list it fetched at its start: after a
\* successful removal of a role from the member, the deletion of the role
\* is what the task does next exactly when no other member holds the role
\* in that list, whoever holds it in the guild by then. And a role one task
\* has deleted while another task added it, or was about to, is in the
\* guild no more and is held by no member.
C17_DeletionDecidedOnSnapshot ==
    \A i \in Slots :
        LET log == EngineCalls(i) IN
        /\ \A n \in DOMAIN log :
              (log[n].op = "remove" /\ log[n].ok) =>
                  (AloneInSnapshot(i, log[n].role)
                     <=> IF n = Len(log) THEN pc[i] = "delete_role"
                         ELSE log[n + 1].op = "delete"
                              /\ log[n + 1].role = log[n].role)
        /\ \A j \in Slots \ {i} : \A n \in DOMAIN log : \A m \in DOMAIN calls[j] :
              (log[n].op = "delete" /\ log[n].ok
                 /\ calls[j][m].op = "add" /\ calls[j][m].role = log[n].role) =>
                  /\ log[n].role \notin DOMAIN guildRoles
                  /\ \A b \in Members : log[n].role \notin Range(dirMember[b])

\* Member A has deleted the role after B had added it: B's interaction has
\* succeeded and B does not hold the role.
C17_Witness ==
    \E i, j \in Slots :
        /\ i # j /\ pc[j] = "done" /\ Succeeded(j)
        /\ \E n \in DOMAIN calls[i] : \E m \in DOMAIN calls[j] :
              /\ calls[i][n].op = "delete" /\ calls[i][n].ok
              /\ calls[j][m].op = "add" /\ calls[j][m].ok
              /\ calls[j][m].role = calls[i][n].role
              /\ calls[j][m].role \in DOMAIN loc[j].roles
              /\ AloneInSnapshot(i, calls[i][n].role)
        /\ TagRoles(Range(dirMember[loc[j].member]), guildRoles, loc[j].kind) = {}
        /\ loc[j].characters # <<>>

\* Member A has deleted the role after B had found it: B's addition has
\* failed though no other call has.
C17_WitnessAddFails ==
    \E i, j \in Slots :
        /\ i # j /\ pc[j] = "done" /\ loc[j].ret = TransportError
        /\ failures = 1
        /\ \E n \in DOMAIN calls[i] : \E m \in DOMAIN calls[j] :
              /\ calls[i][n].op = "delete" /\ calls[i][n].ok
              /\ calls[j][m].op = "add" /\ ~calls[j][m].ok
              /\ calls[j][m].role = calls[i][n].role
              /\ calls[j][m].role \in DOMAIN loc[j].roles

Running(i) == pc[i] \notin {"idle", "returned", "done"}

\* C18: an interaction that is being handled ends: its task reaches the
\* response with Ok or with the error returned, and completes; a task that
\* has completed or returned stays so and issues no remote call.
C18_EveryInvocationTerminates ==
    /\ \A i \in Slots :
          Running(i) ~> (pc[i] = "done" /\ loc[i].ret \in
                            {"Ok", TransportError, CorruptRoleInstance})
    /\ [][\A i \in Slots :
             pc[i] \in {"done", "returned"} =>
                 /\ pc'[i] = pc[i] /\ calls'[i] = calls[i]
                 /\ loc'[i] = loc[i]]_vars

\* An interaction has gone through clear and assign_characters and is
\* complete.
C18_Witness ==
    \E i \in Slots :
        /\ pc[i] = "done" /\ loc[i].ret = "Ok"
        /\ Len(CallsOf(i, "remove")) = 1 /\ Len(CallsOf(i, "add")) = 1

\* Role r was no role of category kind when the interaction of task i
\* arrived.
Unrelated(i, r) ==
    /\ r \in DOMAIN pre[i].roles
    /\ ~ends_with(pre[i].roles[r].name, StatedSuffix(loc[i].kind))

\* C19: while and after an interaction of member A for category C is
\* handled, with no other interaction overlapping, A holds every role it
\* held that is no C role, every role of the guild that is no C role is
\* still there unchanged, every removal and deletion the task has called
\* for is of a C role, and every other member holds what it held except
\* for roles deleted from the guild, and nothing more.
C19_OtherRolesAndMembersUntouched ==
    \A i \in Slots :
        Handled(i) =>
            LET a == loc[i].member IN
            /\ \A r \in Range(pre[i].held[a]) :
                  Unrelated(i, r) => r \in Range(dirMember[a])
            /\ \A r \in DOMAIN pre[i].roles :
                  Unrelated(i, r) =>
                      r \in DOMAIN guildRoles /\ guildRoles[r] = pre[i].roles[r]
            /\ \A n \in DOMAIN calls[i] :
                  calls[i][n].op \in {"remove", "delete"} =>
                      /\ calls[i][n].role \in DOMAIN pre[i].roles
                      /\ ~Unrelated(i, calls[i][n].role)
            /\ \A b \in Members \ {a} :
                  /\ Range(dirMember[b]) \subseteq Range(pre[i].held[b])
                  /\ \A r \in Range(pre[i].held[b]) \ Range(dirMember[b]) :
                        r \notin DOMAIN guildRoles

\* A member that held a role of "main" and a role that is no character
\* role has had its "secondary" roles set and holds both as before.
C19_Witness ==
    \E i \in Slots :
        /\ pc[i] = "done" /\ loc[i].ret = "Ok" /\ loc[i].kind = "Secondary"
        /\ loc[i].characters # <<>>
        /\ \E r, q \in Range(dirMember[loc[i].member]) :
              /\ Unrelated(i, r) /\ Unrelated(i, q)
              /\ ends_with(guildRoles[r].name, StatedSuffix("Main"))
              /\ ~ends_with(guildRoles[q].name, StatedSuffix("Main"))

\* Every role of roles whose name ends with the suffix of a category is
\* held by a member.
NoOrphans(roles, held) ==
    \A r \in DOMAIN roles :
        (\E kind \in Kinds : ends_with(roles[r].name, StatedSuffix(kind))) =>
            \E m \in DOMAIN held : r \in Range(held[m])

\* C20: an interaction that overlapped no other, arrived in a guild in
\* which every character role had a holder and has ended with Ok leaves a
\* guild in which every character role has a holder; so this is true after
\* any number of such interactions in a row.
C20_NoOrphanedCharacterRoles ==
    \A i \in Slots :
        (Succeeded(i) /\ NoOrphans(pre[i].roles, pre[i].held)) =>
            NoOrphans(guildRoles, dirMember)

\* The second of two interactions in a row has ended with Ok after deleting
\* a role its member held alone and creating two.
C20_Witness ==
    \E i \in Slots :
        /\ Succeeded(i) /\ pc[i] = "done" /\ loc[i].before # None
        /\ NoOrphans(pre[i].roles, pre[i].held)
        /\ Len(CallsOf(i, "delete")) >= 1 /\ Len(CallsOf(i, "create")) = 2
=============================================================================
